---- MODULE Spec2Model ----
(***************************************************************************)
(* A model of rogue_scroll: the weighted choice of a scroll kind           *)
(* (Scroll.choose over the lazily built breakpoint table), the generation  *)
(* of a scroll title (Scroll.generate_title, in its two variants: the      *)
(* four-integer interface of scroll.py and the MinMax interface of         *)
(* main.py) and the entropy computation (count_possibilities,              *)
(* Scroll.entropy).                                                        *)
(*                                                                         *)
(* Python's None is modelled by the empty tuple and a value v that may be  *)
(* None by <<v>>.  A raised exception ends the call with `error` set.      *)
(***************************************************************************)
EXTENDS Integers, Sequences, FiniteSets, TLC

\* Scroll.SYLLABLES, in list order (the same list in scroll.py and main.py).
SYLLABLES ==
 <<
    "a", "ab", "ag", "aks", "ala", "an", "app", "arg", "arze", "ash", "bek",
    "bie", "bit", "bjor", "blu", "bot", "bu", "byt", "comp", "con", "cos",
    "cre", "dalf", "dan", "den", "do", "e", "eep", "el", "eng", "er", "ere",
    "erk", "esh", "evs", "fa", "fid", "fri", "fu", "gan", "gar", "glen",
    "gop", "gre", "ha", "hyd", "i", "ing", "ip", "ish", "it", "ite", "iv",
    "jo", "kho", "kli", "klis", "la", "lech", "mar", "me", "mi", "mic",
    "mik", "mon", "mung", "mur", "nej", "nelg", "nep", "ner", "nes", "nes",
    "nih", "nin", "o", "od", "ood", "org", "orn", "ox", "oxy", "pay", "ple",
    "plu", "po", "pot", "prok", "re", "rea", "rhov", "ri", "ro", "rog",
    "rok", "rol", "sa", "san", "sat", "sef", "seh", "shu", "ski", "sna",
    "sne", "snik", "sno", "so", "sol", "sri", "sta", "sun", "ta", "tab",
    "tem", "ther", "ti", "tox", "trol", "tue", "turs", "u", "ulk", "um",
    "un", "uni", "ur", "val", "viv", "vly", "vom", "wah", "wed", "werg",
    "wex", "whon", "wun", "xo", "y", "yot", "yu", "zant", "zeb", "zim",
    "zok", "zon", "zum"
 >>

\* Scroll.SCROLLS, in dict (insertion) order: kind name and weight.
SCROLLS ==
 <<
    [name |-> "monster confusion", prob |-> 7],
    [name |-> "magic mapping", prob |-> 4],
    [name |-> "hold monster", prob |-> 2], [name |-> "sleep", prob |-> 3],
    [name |-> "enchant armor", prob |-> 7],
    [name |-> "identify potion", prob |-> 10],
    [name |-> "identify scroll", prob |-> 10],
    [name |-> "identify weapon", prob |-> 6],
    [name |-> "identify armor", prob |-> 7],
    [name |-> "identify ring, wand or staff", prob |-> 10],
    [name |-> "scare monster", prob |-> 3],
    [name |-> "food detection", prob |-> 2],
    [name |-> "teleportation", prob |-> 5],
    [name |-> "enchant weapon", prob |-> 8],
    [name |-> "create monster", prob |-> 4],
    [name |-> "remove curse", prob |-> 7],
    [name |-> "aggravate monsters", prob |-> 3],
    [name |-> "protect armor", prob |-> 2]
 >>

\* Bounds of the model.
MaxW == 2       \* words-per-title bounds are drawn from -1..MaxW
MaxS == 2       \* syllables-per-word bounds are drawn from -1..MaxS
SylCap == 1     \* syllable index draws are taken among the first SylCap
MaxE == 1       \* range bounds given to Scroll.entropy: 0..MaxE
MaxN == 3       \* bases given to count_possibilities: -1..MaxN
MaxLen == 3     \* lengths given to count_possibilities: 0..MaxLen
NThreads == 2   \* concurrent callers of Scroll.choose

VARIABLES
    \* generate_title
    variant,            \* "scroll" (scroll.py) or "main" (main.py)
    syllables_per_word, \* MinMax (min_syllables, max_syllables)
    words_per_title,    \* MinMax (min_words, max_words)
    pc,
    n_words,
    n_syllables,        \* None or <<int>>
    inclusive_diff,
    words,              \* list[str]
    word,
    w,
    s,
    counts,             \* syllables appended to each word of `words`
    draws,              \* secrets.randbelow calls that returned a value
    samples,            \* syllable counts taken for the words so far
    error,
    title,              \* None or <<str>>
    \* Scroll.cumulative / Scroll.choose
    breakpoints_,       \* Scroll._breakpoints: None or <<list>>
    max_prob_,          \* Scroll._max_prob: None or <<int>>
    tpc,                \* per caller: position in choose / cumulative
    tbreakpoints,       \* per caller: the local `breakpoints` of choose
    tkind,              \* per caller: None or <<index of the kind returned>>
    builds,             \* executions of the construction branch
    \* count_possibilities / Scroll.entropy
    cpc,
    cn, cmin, cmax,     \* arguments of the running count_possibilities
    total,
    length,
    cresult,            \* None or <<int>>
    cerror,
    epc,
    epossible           \* entropy: <<words, titles>> computed so far

titleVars == <<variant, syllables_per_word, words_per_title, pc, n_words,
               n_syllables, inclusive_diff, words, word, w, s, counts,
               draws, samples, error, title>>
chooseVars == <<breakpoints_, max_prob_, tpc, tbreakpoints, tkind, builds>>
countVars == <<cpc, cn, cmin, cmax, total, length, cresult, cerror, epc,
               epossible>>
vars == <<titleVars, chooseVars, countVars>>

None == <<>>
Some(v) == <<v>>

\* class MinMax(NamedTuple)
MinMax(lo, hi) == [min |-> lo, max |-> hi]

\* Exceptions, by the place that raises them (all are ValueError in Python).
NoError == "none"
UpperBoundError == "ValueError: Upper bound must be positive."
InvalidRange == "ValueError: Minimum can't be greater than maximum."
InvalidBase == "ValueError: n must be positive"

\* secrets.randbelow(n): raises ValueError unless n > 0, else a value of
\* range(n).
RandBelowRaises(n) == n <= 0
RandBelow(n) == 0 .. (n - 1)

\* " ".join(words)
RECURSIVE Join(_)
Join(ws) ==
    IF Len(ws) = 0 THEN ""
    ELSE IF Len(ws) = 1 THEN ws[1]
    ELSE ws[1] \o " " \o Join(Tail(ws))

----------------------------------------------------------------------------
(* rand_in_range (main.py) *)

RandInRangeRaises(r) ==
    LET diff == r.max - r.min
    IN  diff # 0 /\ RandBelowRaises(diff + 1)

\* Whether the call takes a draw from secrets.randbelow.
RandInRangeDraws(r) ==
    LET diff == r.max - r.min
    IN  diff # 0 /\ ~RandBelowRaises(diff + 1)

\* A draw over one value too many (RandInRange gone wrong).
RandInRange_OneTooMany(r) ==
    LET diff == r.max - r.min
    IN  IF diff = 0 THEN {r.min}
        ELSE {x + r.min : x \in RandBelow(diff + 2)}

\* The values the call can return.
RandInRange(r) ==
    LET diff == r.max - r.min
    IN  IF diff = 0 THEN {r.min}
        ELSE {x + r.min : x \in RandBelow(diff + 1)}

----------------------------------------------------------------------------
(* Scroll.generate_title *)

\* scroll.py: the values the n_words selection can give.
NWords(min_words, max_words) ==
    IF min_words >= max_words THEN {min_words}
    ELSE {x + min_words : x \in RandBelow((max_words - min_words) + 1)}

\* scroll.py: `not n_syllables` (None and 0 are both falsy).
NotNSyllables(n) == n = None \/ n[1] = 0

\* A caller passes its arguments: any integers, valid range or not.
GenerateTitle_Call ==
    /\ pc = "idle"
    /\ \E v \in {"scroll", "main"} :
       \E smin \in -1 .. MaxS, smax \in -1 .. MaxS :
       \E wmin \in -1 .. MaxW, wmax \in -1 .. MaxW :
          /\ variant' = v
          /\ syllables_per_word' = MinMax(smin, smax)
          /\ words_per_title' = MinMax(wmin, wmax)
    /\ pc' = "n_words"
    /\ UNCHANGED <<n_words, n_syllables, inclusive_diff, words, word, w, s,
                   counts, draws, samples, error, title>>
    /\ UNCHANGED <<chooseVars, countVars>>

\* scroll.py: n_words is min_words, or drawn when min_words < max_words.
GenerateTitle_NWords_scroll ==
    /\ pc = "n_words"
    /\ variant = "scroll"
    /\ n_words' \in NWords(words_per_title.min, words_per_title.max)
    /\ draws' = draws
                + (IF words_per_title.min >= words_per_title.max
                   THEN 0 ELSE 1)
    /\ pc' = "n_syllables"
    /\ UNCHANGED <<variant, syllables_per_word, words_per_title,
                   n_syllables, inclusive_diff, words, word, w, s, counts,
                   samples, error, title>>
    /\ UNCHANGED <<chooseVars, countVars>>

\* scroll.py: a fixed syllable count is computed once, before the loop.
GenerateTitle_NSyllables_scroll ==
    /\ pc = "n_syllables"
    /\ variant = "scroll"
    /\ IF syllables_per_word.min >= syllables_per_word.max
       THEN /\ n_syllables' = Some(syllables_per_word.min)
            /\ inclusive_diff' = 0
       ELSE /\ inclusive_diff' =
                 (syllables_per_word.max - syllables_per_word.min) + 1
            /\ n_syllables' = None
    /\ words' = <<>>
    /\ w' = 0
    /\ pc' = "for_w"
    /\ UNCHANGED <<variant, syllables_per_word, words_per_title, n_words,
                   word, s, counts, draws, samples, error, title>>
    /\ UNCHANGED <<chooseVars, countVars>>

\* main.py: n_words = rand_in_range(words_per_title); words = [].
GenerateTitle_NWords_main ==
    /\ pc = "n_words"
    /\ variant = "main"
    /\ IF RandInRangeRaises(words_per_title)
       THEN /\ error' = UpperBoundError
            /\ pc' = "done"
            /\ UNCHANGED <<n_words, draws, words, w>>
       ELSE /\ n_words' \in RandInRange(words_per_title)
            /\ draws' = draws
                        + (IF RandInRangeDraws(words_per_title)
                           THEN 1 ELSE 0)
            /\ words' = <<>>
            /\ w' = 0
            /\ pc' = "for_w"
            /\ UNCHANGED error
    /\ UNCHANGED <<variant, syllables_per_word, words_per_title,
                   n_syllables, inclusive_diff, word, s, counts, samples,
                   title>>
    /\ UNCHANGED <<chooseVars, countVars>>

\* scroll.py: the head of `for w in range(n_words)`; the syllable count is
\* drawn only `if not n_syllables`.
GenerateTitle_ForW_scroll ==
    /\ pc = "for_w"
    /\ variant = "scroll"
    /\ w < n_words
    /\ IF NotNSyllables(n_syllables)
       THEN IF RandBelowRaises(inclusive_diff)
            THEN /\ error' = UpperBoundError
                 /\ pc' = "done"
                 /\ UNCHANGED <<n_syllables, draws, samples, word, s>>
            ELSE /\ \E x \in RandBelow(inclusive_diff) :
                       n_syllables' = Some(x + syllables_per_word.min)
                 /\ draws' = draws + 1
                 /\ samples' = samples + 1
                 /\ word' = ""
                 /\ s' = 0
                 /\ pc' = "for_s"
                 /\ UNCHANGED error
       ELSE /\ word' = ""
            /\ s' = 0
            /\ pc' = "for_s"
            /\ UNCHANGED <<n_syllables, draws, samples, error>>
    /\ UNCHANGED <<variant, syllables_per_word, words_per_title, n_words,
                   inclusive_diff, words, w, counts, title>>
    /\ UNCHANGED <<chooseVars, countVars>>

\* main.py: the head of `for w in range(n_words)`;
\* n_syllables = rand_in_range(syllables_per_word) for every word.
GenerateTitle_ForW_main ==
    /\ pc = "for_w"
    /\ variant = "main"
    /\ w < n_words
    /\ IF RandInRangeRaises(syllables_per_word)
       THEN /\ error' = UpperBoundError
            /\ pc' = "done"
            /\ UNCHANGED <<n_syllables, draws, samples, word, s>>
       ELSE /\ \E x \in RandInRange(syllables_per_word) :
                  n_syllables' = Some(x)
            /\ draws' = draws
                        + (IF RandInRangeDraws(syllables_per_word)
                           THEN 1 ELSE 0)
            /\ samples' = samples + 1
            /\ word' = ""
            /\ s' = 0
            /\ pc' = "for_s"
            /\ UNCHANGED error
    /\ UNCHANGED <<variant, syllables_per_word, words_per_title, n_words,
                   inclusive_diff, words, w, counts, title>>
    /\ UNCHANGED <<chooseVars, countVars>>

\* `for s in range(n_syllables)`: one syllable, drawn by index, is appended
\* to the word.
GenerateTitle_ForS ==
    /\ pc = "for_s"
    /\ s < n_syllables[1]
    /\ \E i \in RandBelow(Len(SYLLABLES)) :
          /\ i < SylCap
          /\ word' = word \o SYLLABLES[i + 1]
    /\ s' = s + 1
    /\ draws' = draws + 1
    /\ UNCHANGED <<variant, syllables_per_word, words_per_title, pc, n_words,
                   n_syllables, inclusive_diff, words, w, counts, samples,
                   error, title>>
    /\ UNCHANGED <<chooseVars, countVars>>

\* words.append(word), and on to the next word.
GenerateTitle_Append ==
    /\ pc = "for_s"
    /\ ~(s < n_syllables[1])
    /\ words' = Append(words, word)
    /\ counts' = Append(counts, s)
    /\ w' = w + 1
    /\ pc' = "for_w"
    /\ UNCHANGED <<variant, syllables_per_word, words_per_title, n_words,
                   n_syllables, inclusive_diff, word, s, draws, samples,
                   error, title>>
    /\ UNCHANGED <<chooseVars, countVars>>

\* return " ".join(words)
GenerateTitle_Return ==
    /\ pc = "for_w"
    /\ ~(w < n_words)
    /\ title' = Some(Join(words))
    /\ pc' = "done"
    /\ UNCHANGED <<variant, syllables_per_word, words_per_title, n_words,
                   n_syllables, inclusive_diff, words, word, w, s, counts,
                   draws, samples, error>>
    /\ UNCHANGED <<chooseVars, countVars>>

TitleIdle ==
    /\ variant = "scroll"
    /\ syllables_per_word = MinMax(0, 0)
    /\ words_per_title = MinMax(0, 0)
    /\ pc = "idle"
    /\ n_words = 0
    /\ n_syllables = None
    /\ inclusive_diff = 0
    /\ words = <<>>
    /\ word = ""
    /\ w = 0
    /\ s = 0
    /\ counts = <<>>
    /\ draws = 0
    /\ samples = 0
    /\ error = NoError
    /\ title = None

----------------------------------------------------------------------------
(* Scroll.cumulative and Scroll.choose *)

Threads == 1 .. NThreads

\* cls.SCROLLS.values()
Weights == [i \in 1 .. Len(SCROLLS) |-> SCROLLS[i].prob]

\* itertools.accumulate: the running sums.
RECURSIVE Accumulate(_)
Accumulate(xs) ==
    IF Len(xs) = 0 THEN <<>>
    ELSE LET front == Accumulate(SubSeq(xs, 1, Len(xs) - 1))
         IN  Append(front,
                    (IF Len(front) = 0 THEN 0 ELSE front[Len(front)])
                    + xs[Len(xs)])

\* sum(cls.SCROLLS.values())
RECURSIVE Sum(_)
Sum(xs) == IF Len(xs) = 0 THEN 0 ELSE xs[1] + Sum(Tail(xs))

\* The table without `c.pop(0)`: n entries, the first of them 0 (Cumulative
\* gone wrong).
Cumulative_NoPop ==
    LET c == Accumulate(Weights)
        base == c[1]
    IN  [i \in 1 .. Len(c) |-> c[i] - base]

\* The list the construction branch of cumulative assigns to _breakpoints:
\* c = list(accumulate(...)); base = c.pop(0); [x - base for x in c].
Cumulative ==
    LET c0 == Accumulate(Weights)
        base == c0[1]
        c == Tail(c0)
    IN  [i \in 1 .. Len(c) |-> c[i] - base]

\* bisect.bisect (bisect_right) on a 0-indexed list: the binary search of
\* the standard library, from lo = 0 and hi = len(a).
RECURSIVE BisectFrom(_, _, _, _)
BisectFrom(a, x, lo, hi) ==
    IF lo < hi
    THEN LET mid == (lo + hi) \div 2
         IN  IF x < a[mid + 1]
             THEN BisectFrom(a, x, lo, mid)
             ELSE BisectFrom(a, x, mid + 1, hi)
    ELSE lo

Bisect(a, x) == BisectFrom(a, x, 0, Len(a))

\* A caller enters choose, which calls cls.cumulative().
Choose_Call(t) ==
    /\ tpc[t] = "idle"
    /\ tpc' = [tpc EXCEPT ![t] = "check"]
    /\ UNCHANGED <<breakpoints_, max_prob_, tbreakpoints, tkind, builds>>
    /\ UNCHANGED <<titleVars, countVars>>

\* cumulative: `if cls._breakpoints is None`
Cumulative_Check(t) ==
    /\ tpc[t] = "check"
    /\ tpc' = [tpc EXCEPT ![t] =
                  IF breakpoints_ = None THEN "build" ELSE "return"]
    /\ UNCHANGED <<breakpoints_, max_prob_, tbreakpoints, tkind, builds>>
    /\ UNCHANGED <<titleVars, countVars>>

\* cumulative: the table is computed and stored in cls._breakpoints.
Cumulative_Build(t) ==
    /\ tpc[t] = "build"
    /\ breakpoints_' = Some(Cumulative)
    /\ builds' = builds + 1
    /\ tpc' = [tpc EXCEPT ![t] = "max_prob"]
    /\ UNCHANGED <<max_prob_, tbreakpoints, tkind>>
    /\ UNCHANGED <<titleVars, countVars>>

\* cumulative: cls._max_prob = sum(cls.SCROLLS.values())
Cumulative_MaxProb(t) ==
    /\ tpc[t] = "max_prob"
    /\ max_prob_' = Some(Sum(Weights))
    /\ tpc' = [tpc EXCEPT ![t] = "return"]
    /\ UNCHANGED <<breakpoints_, tbreakpoints, tkind, builds>>
    /\ UNCHANGED <<titleVars, countVars>>

\* cumulative: `return cls._breakpoints`, bound to choose's `breakpoints`.
Cumulative_Return(t) ==
    /\ tpc[t] = "return"
    /\ tbreakpoints' = [tbreakpoints EXCEPT ![t] = breakpoints_]
    /\ tpc' = [tpc EXCEPT ![t] = "assert"]
    /\ UNCHANGED <<breakpoints_, max_prob_, tkind, builds>>
    /\ UNCHANGED <<titleVars, countVars>>

\* choose: the two assertions.
Choose_Assert(t) ==
    /\ tpc[t] = "assert"
    /\ tpc' = [tpc EXCEPT ![t] =
                  IF /\ max_prob_ # None
                     /\ Len(tbreakpoints[t][1]) = Len(SCROLLS) - 1
                  THEN "score" ELSE "failed"]
    /\ UNCHANGED <<breakpoints_, max_prob_, tbreakpoints, tkind, builds>>
    /\ UNCHANGED <<titleVars, countVars>>

\* choose: score = secrets.randbelow(cls._max_prob) + 1;
\* i = bisect(breakpoints, score); return scroll_types[i].
Choose_Score(t) ==
    /\ tpc[t] = "score"
    /\ \E x \in RandBelow(max_prob_[1]) :
          LET score == x + 1
          IN  tkind' = [tkind EXCEPT ![t] =
                           Some(Bisect(tbreakpoints[t][1], score))]
    /\ tpc' = [tpc EXCEPT ![t] = "done"]
    /\ UNCHANGED <<breakpoints_, max_prob_, tbreakpoints, builds>>
    /\ UNCHANGED <<titleVars, countVars>>

\* The caller has its kind and may call again.
Choose_Again(t) ==
    /\ tpc[t] = "done"
    /\ tpc' = [tpc EXCEPT ![t] = "idle"]
    /\ tbreakpoints' = [tbreakpoints EXCEPT ![t] = None]
    /\ tkind' = [tkind EXCEPT ![t] = None]
    /\ UNCHANGED <<breakpoints_, max_prob_, builds>>
    /\ UNCHANGED <<titleVars, countVars>>

ChooseIdle ==
    /\ breakpoints_ = None
    /\ max_prob_ = None
    /\ tpc = [t \in Threads |-> "idle"]
    /\ tbreakpoints = [t \in Threads |-> None]
    /\ tkind = [t \in Threads |-> None]
    /\ builds = 0

----------------------------------------------------------------------------
(* count_possibilities and Scroll.entropy *)

\* main.py is_min_max, on a pair of integers: only `mm[1] < mm[0]` can fail.
IsMinMax(mm) == ~(mm[2] < mm[1])

\* The range check as main.py's docstring words it, "if max > min"
\* (RangeRejected gone wrong).
RangeRejected_MaxGtMin(v, lo, hi) == hi > lo

\* The range check of count_possibilities: `min > max` in scroll.py,
\* `not is_min_max((min, max))` in main.py.
RangeRejected(v, lo, hi) ==
    IF v = "scroll" THEN lo > hi ELSE ~IsMinMax(<<lo, hi>>)

\* The base check of count_possibilities: `n < 1`.
BaseRejected(n) == n < 1

\* n**length, for length >= 0.
Pow(n, len) == n ^ len

\* A loop that leaves out the last length (RangeStop gone wrong).
RangeStop_Exclusive(hi) == hi

\* The stop of `range(min, max + 1)`.
RangeStop(hi) == hi + 1

\* A caller calls count_possibilities itself.
Count_Call ==
    /\ epc = "idle"
    /\ \E v \in {"scroll", "main"} :
       \E n \in -1 .. MaxN, lo \in 0 .. MaxLen, hi \in 0 .. MaxLen :
          /\ variant' = v
          /\ cn' = n
          /\ cmin' = lo
          /\ cmax' = hi
    /\ epc' = "direct"
    /\ cpc' = "range"
    /\ UNCHANGED <<total, length, cresult, cerror, epossible>>
    /\ UNCHANGED <<syllables_per_word, words_per_title, pc, n_words,
                   n_syllables, inclusive_diff, words, word, w, s, counts,
                   draws, samples, error, title>>
    /\ UNCHANGED chooseVars

\* count_possibilities: the range check.
Count_Range ==
    /\ cpc = "range"
    /\ IF RangeRejected(variant, cmin, cmax)
       THEN /\ cerror' = InvalidRange
            /\ cpc' = "done"
       ELSE /\ cpc' = "base"
            /\ UNCHANGED cerror
    /\ UNCHANGED <<cn, cmin, cmax, total, length, cresult, epc, epossible>>
    /\ UNCHANGED <<titleVars, chooseVars>>

\* count_possibilities: the base check; total = 0.
Count_Base ==
    /\ cpc = "base"
    /\ IF BaseRejected(cn)
       THEN /\ cerror' = InvalidBase
            /\ cpc' = "done"
            /\ UNCHANGED <<total, length>>
       ELSE /\ total' = 0
            /\ length' = cmin
            /\ cpc' = "loop"
            /\ UNCHANGED cerror
    /\ UNCHANGED <<cn, cmin, cmax, cresult, epc, epossible>>
    /\ UNCHANGED <<titleVars, chooseVars>>

\* count_possibilities: one turn of `for length in range(min, max + 1)`.
Count_Loop ==
    /\ cpc = "loop"
    /\ length < RangeStop(cmax)
    /\ total' = total + Pow(cn, length)
    /\ length' = length + 1
    /\ UNCHANGED <<cpc, cn, cmin, cmax, cresult, cerror, epc, epossible>>
    /\ UNCHANGED <<titleVars, chooseVars>>

\* count_possibilities: return total.
Count_Return ==
    /\ cpc = "loop"
    /\ ~(length < RangeStop(cmax))
    /\ cresult' = Some(total)
    /\ cpc' = "done"
    /\ UNCHANGED <<cn, cmin, cmax, total, length, cerror, epc, epossible>>
    /\ UNCHANGED <<titleVars, chooseVars>>

\* A caller calls entropy, which calls
\* count_possibilities(len(cls.SYLLABLES), min_syllables, max_syllables).
Entropy_Call ==
    /\ epc = "idle"
    /\ \E v \in {"scroll", "main"} :
       \E smin \in 0 .. MaxE, smax \in 0 .. MaxE :
       \E wmin \in 0 .. MaxE, wmax \in 0 .. MaxE :
          /\ variant' = v
          /\ syllables_per_word' = MinMax(smin, smax)
          /\ words_per_title' = MinMax(wmin, wmax)
          /\ cn' = Len(SYLLABLES)
          /\ cmin' = smin
          /\ cmax' = smax
    /\ epc' = "words"
    /\ cpc' = "range"
    /\ UNCHANGED <<total, length, cresult, cerror, epossible>>
    /\ UNCHANGED <<pc, n_words, n_syllables, inclusive_diff, words, word, w,
                   s, counts, draws, samples, error, title>>
    /\ UNCHANGED chooseVars

\* entropy: words is bound, and
\* count_possibilities(words, min_words, max_words) is called.
Entropy_Words ==
    /\ epc = "words"
    /\ cpc = "done"
    /\ cerror = NoError
    /\ epossible' = <<cresult[1]>>
    /\ cn' = cresult[1]
    /\ cmin' = words_per_title.min
    /\ cmax' = words_per_title.max
    /\ cresult' = None
    /\ cpc' = "range"
    /\ epc' = "titles"
    /\ UNCHANGED <<total, length, cerror>>
    /\ UNCHANGED <<titleVars, chooseVars>>

\* entropy: titles is bound; return math.log2(titles).
Entropy_Titles ==
    /\ epc = "titles"
    /\ cpc = "done"
    /\ cerror = NoError
    /\ epossible' = Append(epossible, cresult[1])
    /\ epc' = "done"
    /\ UNCHANGED <<cpc, cn, cmin, cmax, total, length, cresult, cerror>>
    /\ UNCHANGED <<titleVars, chooseVars>>

\* entropy: an exception of count_possibilities is not caught.
Entropy_Raise ==
    /\ epc \in {"words", "titles"}
    /\ cpc = "done"
    /\ cerror # NoError
    /\ epc' = "raised"
    /\ UNCHANGED <<cpc, cn, cmin, cmax, total, length, cresult, cerror,
                   epossible>>
    /\ UNCHANGED <<titleVars, chooseVars>>

CountIdle ==
    /\ cpc = "idle"
    /\ cn = 0
    /\ cmin = 0
    /\ cmax = 0
    /\ total = 0
    /\ length = 0
    /\ cresult = None
    /\ cerror = NoError
    /\ epc = "idle"
    /\ epossible = <<>>

----------------------------------------------------------------------------
(* Specifications *)

Init == TitleIdle /\ ChooseIdle /\ CountIdle

\* Title generation.
Next ==
    \/ GenerateTitle_Call
    \/ GenerateTitle_NWords_scroll
    \/ GenerateTitle_NSyllables_scroll
    \/ GenerateTitle_NWords_main
    \/ GenerateTitle_ForW_scroll
    \/ GenerateTitle_ForW_main
    \/ GenerateTitle_ForS
    \/ GenerateTitle_Append
    \/ GenerateTitle_Return

Spec == Init /\ [][Next]_vars

\* Concurrent callers of Scroll.choose.
NextChoose ==
    \E t \in Threads :
        \/ Choose_Call(t)
        \/ Cumulative_Check(t)
        \/ Cumulative_Build(t)
        \/ Cumulative_MaxProb(t)
        \/ Cumulative_Return(t)
        \/ Choose_Assert(t)
        \/ Choose_Score(t)
        \/ Choose_Again(t)

SpecChoose == Init /\ [][NextChoose]_vars

\* count_possibilities and entropy.
NextEntropy ==
    \/ Count_Call
    \/ Count_Range
    \/ Count_Base
    \/ Count_Loop
    \/ Count_Return
    \/ Entropy_Call
    \/ Entropy_Words
    \/ Entropy_Titles
    \/ Entropy_Raise

SpecEntropy == Init /\ [][NextEntropy]_vars

----------------------------------------------------------------------------
(* The titles generate_title can return, as a set: the same statements,   *)
(* followed over every outcome of the draws, with syllable indexes taken   *)
(* among the first K entries of SYLLABLES.                                 *)

\* The words the inner loop `for s in range(k)` can build.
RECURSIVE SylStrings(_, _)
SylStrings(k, K) ==
    IF k <= 0 THEN {""}
    ELSE {wd \o SYLLABLES[i + 1] :
            wd \in SylStrings(k - 1, K),
            i \in {j \in RandBelow(Len(SYLLABLES)) : j < K}}

\* main.py: the lists `words` can be after k more turns of the outer loop.
RECURSIVE WordLists_main(_, _, _)
WordLists_main(k, sr, K) ==
    IF k <= 0 THEN {<<>>}
    ELSE IF RandInRangeRaises(sr) THEN {}
    ELSE {<<wd>> \o rest :
            wd \in UNION {SylStrings(x, K) : x \in RandInRange(sr)},
            rest \in WordLists_main(k - 1, sr, K)}

\* scroll.py: the same, from the value n_syllables has at the loop head.
RECURSIVE WordLists_scroll(_, _, _, _)
WordLists_scroll(k, ns, sr, K) ==
    LET diff == IF sr.min >= sr.max THEN 0 ELSE (sr.max - sr.min) + 1
        After(n) == {<<wd>> \o rest :
                       wd \in SylStrings(n, K),
                       rest \in WordLists_scroll(k - 1, Some(n), sr, K)}
    IN  IF k <= 0 THEN {<<>>}
        ELSE IF NotNSyllables(ns)
             THEN IF RandBelowRaises(diff) THEN {}
                  ELSE UNION {After(x + sr.min) : x \in RandBelow(diff)}
             ELSE After(ns[1])

\* The strings generate_title(sr, wr) can return.
TitleStrings(v, sr, wr, K) ==
    IF v = "main"
    THEN IF RandInRangeRaises(wr) THEN {}
         ELSE {Join(ws) :
                 ws \in UNION {WordLists_main(n, sr, K) :
                                 n \in RandInRange(wr)}}
    ELSE {Join(ws) :
            ws \in UNION {WordLists_scroll(
                             n,
                             IF sr.min >= sr.max THEN Some(sr.min) ELSE None,
                             sr, K) :
                          n \in NWords(wr.min, wr.max)}}

\* Every title the stepwise model returns is one of TitleStrings.
TitleIsOneOfTitleStrings ==
    (pc = "done" /\ title # None)
        => title[1] \in TitleStrings(variant, syllables_per_word,
                                     words_per_title, SylCap)

\* s.count(" "), as tests/test_words.py counts the words of a title.
RECURSIVE CountSpaces(_)
CountSpaces(str) ==
    IF Len(str) = 0 THEN 0
    ELSE (IF SubSeq(str, 1, 1) = " " THEN 1 ELSE 0)
         + CountSpaces(SubSeq(str, 2, Len(str)))

----------------------------------------------------------------------------
(* Claims *)

ValidRange(r) == r.min <= r.max
Returned == pc = "done" /\ title # None

\* The scores of 1..tot that the search maps to the kind of index i.
BucketSize(bps, tot, i) ==
    Cardinality({score \in 1 .. tot : Bisect(bps, score) = i})

\* C1: choose selects each kind proportionally to its weight: of the scores
\* 1..total, the number the breakpoint table and the search map to kind i
\* is the weight of kind i, for every kind (SpecChoose).  Violated: kind 0
\* ("monster confusion", weight 7) gets the 3 scores 1..3.
C1_BucketWidthIsWeight ==
    \A t \in Threads :
        tpc[t] = "score" =>
            \A i \in 1 .. Len(SCROLLS) :
                BucketSize(tbreakpoints[t][1], max_prob_[1], i - 1)
                    = SCROLLS[i].prob

\* The word count of the returned title: the length of the joined list,
\* which for a title of at least one word is its number of spaces plus one.
WordCountIn(lo, hi) ==
    /\ lo <= Len(words)
    /\ Len(words) <= hi
    /\ Len(words) >= 1 => CountSpaces(title[1]) + 1 = Len(words)
    /\ Len(words) = 0 => title[1] = ""

\* C2, as stated: for every valid words range and valid syllables range,
\* the returned title has a word count n with min <= n <= max.  Violated
\* by a words range below zero, such as (-1, -1): the title has no word.
C2_WordCountInRange_Original ==
    (Returned /\ ValidRange(words_per_title)
              /\ ValidRange(syllables_per_word))
        => WordCountIn(words_per_title.min, words_per_title.max)

\* C2, amended: for every valid words range with max >= 0 and every valid
\* syllables range, the returned title has a word count n with
\* min <= n <= max.
C2_WordCountInRange ==
    (Returned /\ ValidRange(words_per_title)
              /\ words_per_title.max >= 0
              /\ ValidRange(syllables_per_word))
        => WordCountIn(words_per_title.min, words_per_title.max)

\* A title of max_words words was returned for a range with min < max.
C2_Witness ==
    /\ Returned
    /\ ValidRange(syllables_per_word)
    /\ words_per_title.min < words_per_title.max
    /\ words_per_title.min >= 1
    /\ Len(words) = words_per_title.max

\* C3: for every valid words and syllables range, min = max and min = 0
\* included, generate_title returns a title and every word of it is built
\* from s syllables, min <= s <= max.  Stated for the ranges with bounds
\* >= 0 that the claim names.  Violated by scroll.py for the syllables
\* range (0, 0): `not n_syllables` holds for 0 and randbelow(0) raises.
C3_SyllableCountInRange ==
    (/\ pc = "done"
     /\ ValidRange(words_per_title)
     /\ ValidRange(syllables_per_word)
     /\ words_per_title.min >= 0
     /\ syllables_per_word.min >= 0)
        => /\ error = NoError
           /\ title # None
           /\ \A k \in 1 .. Len(counts) :
                 /\ syllables_per_word.min <= counts[k]
                 /\ counts[k] <= syllables_per_word.max

\* C4: the syllable count is sampled again for each word: a returned title
\* of at least two words, for a syllables range with min < max, took one
\* sample per word.  Stated for a valid words range and min_syllables >= 1.
\* Violated by scroll.py, which samples only `if not n_syllables`: every
\* word after the first keeps the first nonzero count.
C4_SampledPerWord ==
    (/\ Returned
     /\ ValidRange(words_per_title)
     /\ syllables_per_word.min >= 1
     /\ syllables_per_word.min < syllables_per_word.max
     /\ Len(words) >= 2)
        => samples = Len(words)

\* C5: a call with a words range or a syllables range of min > max fails,
\* and has taken no draw when it fails.  Violated: scroll.py returns a
\* title for such a range, and main.py samples the word count before it
\* meets an invalid syllables range.
C5_FailsBeforeAnyDraw ==
    (/\ pc # "idle"
     /\ \/ ~ValidRange(words_per_title)
        \/ ~ValidRange(syllables_per_word))
        => /\ draws = 0
           /\ pc = "done" => error # NoError

\* C6: no caller of choose sees the breakpoint table built without the
\* total being set, so the assertion of choose never fails (SpecChoose).
\* Violated: cumulative stores _breakpoints and _max_prob in two steps,
\* with no lock between them.
C6_NoPartialTable ==
    \A t \in Threads :
        /\ tpc[t] = "assert" => max_prob_ # None
        /\ tpc[t] # "failed"

\* C7: the construction branch of cumulative runs at most once, whatever
\* the interleaving of the callers (SpecChoose).  Violated: two callers
\* can both find _breakpoints None before either stores it.
C7_BuiltAtMostOnce == builds <= 1

\* The sum of n^len for len from lo to hi.
RECURSIVE SumPow(_, _, _)
SumPow(n, lo, hi) ==
    IF lo > hi THEN 0 ELSE SumPow(n, lo, hi - 1) + n ^ hi

\* C8: for n >= 1 and 0 <= min <= max, count_possibilities(n, min, max)
\* returns the sum of n^len for len in min..max: the geometric sum, and
\* n^k when min = max = k (SpecEntropy).
C8_SumOfPowers ==
    (cpc = "done" /\ cn >= 1 /\ 0 <= cmin /\ cmin <= cmax)
        => /\ cresult # None
           /\ cresult[1] = SumPow(cn, cmin, cmax)
           /\ cmin = cmax => cresult[1] = cn ^ cmin
           /\ epc = "direct" =>
                 (cn - 1) * cresult[1] = cn ^ (cmax + 1) - cn ^ cmin
           /\ cn = 1 => cresult[1] = cmax - cmin + 1

\* count_possibilities(2, 1, 3) has returned 2 + 4 + 8.
C8_Witness ==
    /\ epc = "direct"
    /\ cpc = "done"
    /\ cn = 2 /\ cmin = 1 /\ cmax = 3
    /\ cresult = Some(14)

C10_CountsDistinctTitles ==
    (/\ epc = "done"
     /\ syllables_per_word.min >= 1
     /\ words_per_title.min >= 1) =>
        epossible[2] = Cardinality(TitleStrings(variant, syllables_per_word,
                                                words_per_title,
                                                Len(SYLLABLES)))

\* The draws of the call so far that chose a syllable by index.
IndexDraws == Sum(counts) + (IF pc = "for_s" THEN s ELSE 0)

Degenerate(r) == r.min = r.max

\* C11: a range with min = max, of any value, 0 included, yields that
\* constant and takes no draw: n_words is min_words, every word's
\* n_syllables is min_syllables, the call does not fail, and the draws
\* beyond the syllable index draws are one for a words range with
\* min < max and one per sample of a syllables range with min < max.
\* Violated by scroll.py for the syllables range (0, 0): `not n_syllables`
\* holds for the constant 0 and secrets.randbelow(0) raises (see C3).
C11_DegenerateRangeTakesNoDraw ==
    (/\ pc \notin {"idle", "n_words"}
     /\ ValidRange(words_per_title)
     /\ ValidRange(syllables_per_word)
     /\ Degenerate(words_per_title) \/ Degenerate(syllables_per_word))
        => /\ Degenerate(words_per_title) =>
                 n_words = words_per_title.min
           /\ (Degenerate(syllables_per_word) /\ pc = "for_s") =>
                 n_syllables = Some(syllables_per_word.min)
           /\ (Degenerate(words_per_title)
               /\ Degenerate(syllables_per_word)) => error = NoError
           /\ draws - IndexDraws
                 = (IF Degenerate(words_per_title) THEN 0 ELSE 1)
                   + (IF Degenerate(syllables_per_word) THEN 0
                      ELSE samples)

\* C11 without the case scroll.py gets wrong.
C11_ExceptScrollZero ==
    ~(variant = "scroll" /\ syllables_per_word = MinMax(0, 0))
        => C11_DegenerateRangeTakesNoDraw

\* C12: the buckets of the table cumulative builds partition the scores
\* 1..total: the table holds n - 1 breakpoints for the n kinds of SCROLLS,
\* every score is mapped to an index of 0..n-1, each of the n buckets holds
\* a score, the bucket widths sum to the total declared weight, which is
\* the _max_prob the scores are drawn below, and a caller that returns
\* returns the index of a catalog kind (SpecChoose).
C12_BucketsPartitionScores ==
    /\ breakpoints_ # None =>
          LET bps == breakpoints_[1]
              n == Len(SCROLLS)
              tot == Sum(Weights)
              found == {<<score, Bisect(bps, score)>> : score \in 1 .. tot}
              width == [i \in 0 .. n - 1 |->
                          Cardinality({p \in found : p[2] = i})]
          IN  /\ Len(bps) = n - 1
              /\ \A p \in found : p[2] \in 0 .. n - 1
              /\ \A i \in 0 .. n - 1 : width[i] >= 1
              /\ Sum([i \in 1 .. n |-> width[i - 1]]) = tot
              /\ max_prob_ # None => max_prob_[1] = tot
    /\ \A t \in Threads :
          /\ tbreakpoints[t] # None => tbreakpoints[t] = breakpoints_
          /\ tkind[t] # None => tkind[t][1] + 1 \in DOMAIN SCROLLS

\* A caller has returned the last kind: its score was above every
\* breakpoint.
C12_Witness ==
    \E t \in Threads :
        /\ tpc[t] = "done"
        /\ tkind[t] = Some(Len(SCROLLS) - 1)
        /\ Len(breakpoints_[1]) = Len(SCROLLS) - 1

====
